---- MODULE Spec2Model ----
(***************************************************************************)
(* puzzlewidgetserver: the widget/action registry (WidgetServer, Widget),  *)
(* and the dispatch adapter (widgetServerAdapter.GetWidget / Process) of   *)
(* src/server.go.                                                          *)
(*                                                                         *)
(* Go maps are reference values: the registry s.widgets is one map object  *)
(* shared by the WidgetServer and, after Start, by the adapter; every      *)
(* Widget is a map object of its own, modelled as a cell of `heap`, and a  *)
(* Widget value (a handle) is the index of its cell.                       *)
(***************************************************************************)
EXTENDS Integers, Sequences, FiniteSets

\* ---------------------------------------------------------------- bounds
MaxRegistrations == 4
MaxCallers == 2
MaxOtherFiles == 1

\* ------------------------------------------------------- program constants
dataKey == "puzzledata.json"
filesKey == "Files"

errWidgetNotFound == "widget not found"
errActionNotFound == "action not found"
errInternal == "internal service error"
\* the nil error
NoError == "<nil>"

\* ------------------------------------------------------------ input pools
WidgetNames == {"home", "blog"}
ActionNames == {"view", "save"}
Callers == 1..MaxCallers

FilePool == <<"a.png", "b.txt", "c.bin">>
OtherFileNames == {FilePool[i] : i \in 1..MaxOtherFiles}
FileBytes(name) == "bytes of " \o name

\* ------------------------------------------------------------ map helpers
EmptyMap == [k \in {} |-> 0]

\* m[k] = v on a Go map
Put(m, k, v) == [x \in (DOMAIN m) \cup {k} |-> IF x = k THEN v ELSE m[x]]

\* delete(m, k) on a Go map
Delete(m, k) == [x \in (DOMAIN m) \ {k} |-> m[x]]

\* ---------------------------------------------------------------- state
VARIABLES
  widgets,            \* WidgetServer.widgets: widget name -> Widget (a heap cell)
  heap,               \* the Widget map objects: cell -> (action name -> action)
  created,            \* the Widget returned by the last CreateWidget (0: none yet)
  started,            \* Start() has registered the adapter and is serving
  calls,              \* per caller, the GetWidget / Process call it is in
  fatal,              \* the runtime has thrown "concurrent map read and map write"
  nRegs,              \* number of registration calls made so far
  registeredAtStart,  \* the registry's contents when Start() was called
  lastReg,            \* the registration call the last step made, if it made one
  handles,            \* per widget name, the Widgets CreateWidget has returned for it, in order
  helper              \* a call of a helper of helper.go: its argument and its results

vars == <<widgets, heap, created, started, calls, fatal, nRegs, registeredAtStart,
          lastReg, handles, helper>>

\* ------------------------------------------------------------- registry
\* the handlers the embedding program registers
Handlers == {"hRender", "hRaw", "hFail"}

\* the (kind, path, handler) triples the embedding program registers
ActionInputs ==
  { [kind |-> "TEMPLATE", path |-> "/view/:id", handler |-> "hRender"],
    [kind |-> "RAW",  path |-> "/file/:name", handler |-> "hRaw"],
    [kind |-> "TEMPLATE", path |-> "/save", handler |-> "hFail"] }

\* the queryNames the embedding program passes to AddActionWithQuery
QueryInputs == { <<"page", "filter">> }

\* the nil []string
NoQueryNames == <<>>

\* the zero action: what w[actionName] yields for a name w does not hold
NoAction == [kind |-> "", path |-> "", queryNames |-> NoQueryNames, handler |-> ""]

\* no registration call
NoReg ==
  [op |-> "none", widgetName |-> "", w |-> 0, actionName |-> "",
   act |-> NoAction, had |-> FALSE, prev |-> NoAction]

\* type Widget map[string]action: Widget{}
EmptyWidget == EmptyMap

\* the registry as Describe and Process read it: widget name -> action name -> action
Deep(ws, hp) == [w \in DOMAIN ws |-> hp[ws[w]]]

Registry == Deep(widgets, heap)

\* the process has not died of a runtime fatal error
Alive == ~fatal

\* CreateWidget that registers a fresh empty widget even under a registered name
CreateWidgetAlwaysNew(widgetName) ==
  /\ Alive
  /\ nRegs < MaxRegistrations
  /\ heap' = Append(heap, EmptyWidget)
  /\ widgets' = Put(widgets, widgetName, Len(heap) + 1)
  /\ created' = Len(heap) + 1
  /\ nRegs' = nRegs + 1
  /\ lastReg' = [NoReg EXCEPT !.op = "CreateWidget", !.widgetName = widgetName,
                              !.had = (widgetName \in DOMAIN widgets)]
  /\ handles' = Put(handles, widgetName,
                    Append(IF widgetName \in DOMAIN handles THEN handles[widgetName] ELSE <<>>,
                           created'))
  /\ UNCHANGED <<started, calls, fatal, registeredAtStart, helper>>

\* CreateWidget that returns a copy of the Widget registered under the name
CreateWidgetReturnsCopy(widgetName) ==
  /\ Alive
  /\ nRegs < MaxRegistrations
  /\ IF widgetName \in DOMAIN widgets
       THEN /\ heap' = Append(heap, heap[widgets[widgetName]])
            /\ UNCHANGED widgets
       ELSE /\ heap' = Append(Append(heap, EmptyWidget), EmptyWidget)
            /\ widgets' = Put(widgets, widgetName, Len(heap) + 1)
  /\ created' = Len(heap')
  /\ nRegs' = nRegs + 1
  /\ lastReg' = [NoReg EXCEPT !.op = "CreateWidget", !.widgetName = widgetName,
                              !.had = (widgetName \in DOMAIN widgets)]
  /\ handles' = Put(handles, widgetName,
                    Append(IF widgetName \in DOMAIN handles THEN handles[widgetName] ELSE <<>>,
                           created'))
  /\ UNCHANGED <<started, calls, fatal, registeredAtStart, helper>>

\* func (s WidgetServer) CreateWidget(widgetName string) Widget
CreateWidget(widgetName) ==
  /\ Alive
  /\ nRegs < MaxRegistrations
  /\ IF widgetName \in DOMAIN widgets
       THEN /\ created' = widgets[widgetName]
            /\ UNCHANGED <<widgets, heap>>
       ELSE /\ heap' = Append(heap, EmptyWidget)
            /\ widgets' = Put(widgets, widgetName, Len(heap) + 1)
            /\ created' = Len(heap) + 1
  /\ nRegs' = nRegs + 1
  /\ lastReg' = [NoReg EXCEPT !.op = "CreateWidget", !.widgetName = widgetName,
                              !.had = (widgetName \in DOMAIN widgets)]
  /\ handles' = Put(handles, widgetName,
                    Append(IF widgetName \in DOMAIN handles THEN handles[widgetName] ELSE <<>>,
                           created'))
  /\ UNCHANGED <<started, calls, fatal, registeredAtStart, helper>>

\* w[actionName] = action{...} on the Widget w
SetAction(w, actionName, act) ==
  /\ Alive
  /\ nRegs < MaxRegistrations
  /\ w \in 1..Len(heap)
  /\ heap' = [heap EXCEPT ![w] = Put(@, actionName, act)]
  /\ nRegs' = nRegs + 1
  /\ UNCHANGED <<widgets, created, started, calls, fatal, registeredAtStart, handles, helper>>

\* AddAction that keeps the query names of the action it overwrites
AddActionKeepsQuery(w, actionName, kind, path, handler) ==
  LET kept == IF w \in 1..Len(heap) /\ actionName \in DOMAIN heap[w]
                THEN heap[w][actionName].queryNames ELSE NoQueryNames
      act == [kind |-> kind, path |-> path, queryNames |-> kept, handler |-> handler]
  IN /\ SetAction(w, actionName, act)
     /\ lastReg' = [NoReg EXCEPT !.op = "AddAction", !.w = w, !.actionName = actionName,
                                 !.act = act,
                                 !.had = (actionName \in DOMAIN heap[w]),
                                 !.prev = IF actionName \in DOMAIN heap[w]
                                            THEN heap[w][actionName] ELSE NoAction]

\* func (w Widget) AddAction(actionName, kind, path, handler)
AddAction(w, actionName, kind, path, handler) ==
  /\ SetAction(w, actionName,
               [kind |-> kind, path |-> path, queryNames |-> NoQueryNames, handler |-> handler])
  /\ lastReg' = [NoReg EXCEPT !.op = "AddAction", !.w = w, !.actionName = actionName,
                              !.act = [kind |-> kind, path |-> path,
                                       queryNames |-> NoQueryNames, handler |-> handler],
                              !.had = (actionName \in DOMAIN heap[w]),
                              !.prev = IF actionName \in DOMAIN heap[w]
                                         THEN heap[w][actionName] ELSE NoAction]

\* func (w Widget) AddActionWithQuery(actionName, kind, path, queryNames, handler)
AddActionWithQuery(w, actionName, kind, path, queryNames, handler) ==
  /\ SetAction(w, actionName,
               [kind |-> kind, path |-> path, queryNames |-> queryNames, handler |-> handler])
  /\ lastReg' = [NoReg EXCEPT !.op = "AddActionWithQuery", !.w = w,
                              !.actionName = actionName,
                              !.act = [kind |-> kind, path |-> path,
                                       queryNames |-> queryNames, handler |-> handler],
                              !.had = (actionName \in DOMAIN heap[w]),
                              !.prev = IF actionName \in DOMAIN heap[w]
                                         THEN heap[w][actionName] ELSE NoAction]

\* an adapter built over a map of its own
AdapterWidgetsFresh == EmptyMap

\* an adapter built over a copy of the registry map made by Start()
AdapterWidgetsCopy == [w \in DOMAIN registeredAtStart |-> widgets[w]]

\* widgetServerAdapter{widgets: s.widgets, ...}: the adapter holds the registry
\* map itself, not a copy of it
AdapterWidgets == widgets

\* func (s WidgetServer) Start()
Start ==
  /\ Alive
  /\ ~started
  /\ started' = TRUE
  /\ registeredAtStart' = Registry
  /\ lastReg' = NoReg
  /\ UNCHANGED <<widgets, heap, created, calls, fatal, nRegs, handles, helper>>

\* ----------------------------------------------------------- data trees
\* type Data = map[string]any.  A tree is the nil map or a map object; a
\* value is a decoded JSON value (kept as its JSON text) or, under filesKey,
\* the request's map[string][]byte.
NoFiles == EmptyMap
NilData == [isNil |-> TRUE, m |-> EmptyMap]
MapData(m) == [isNil |-> FALSE, m |-> m]
JsonValue(text) == [kind |-> "json", json |-> text, files |-> NoFiles]
FilesValue(files) == [kind |-> "files", json |-> "", files |-> files]

\* the bytes a caller sends under dataKey
PayloadBytes ==
  { "", "{bad", "[1]", "null", "{}", "{\"Id\":7}", "{\"Files\":\"x\"}" }

\* json.Unmarshal(dataBytes, &data) with data a nil Data: the error (NoError
\* when it decodes) and the value data holds afterwards
Unmarshal(bytes) ==
  CASE bytes = "" ->
         [err |-> "unexpected end of JSON input", data |-> NilData]
    [] bytes = "{bad" ->
         [err |-> "invalid character 'b' looking for beginning of object key string",
          data |-> NilData]
    [] bytes = "[1]" ->
         [err |-> "json: cannot unmarshal array into Go value of type map[string]interface {}",
          data |-> NilData]
    [] bytes = "null" ->
         [err |-> NoError, data |-> NilData]
    [] bytes = "{}" ->
         [err |-> NoError, data |-> MapData(EmptyMap)]
    [] bytes = "{\"Id\":7}" ->
         [err |-> NoError, data |-> MapData([k \in {"Id"} |-> JsonValue("7")])]
    [] bytes = "{\"Files\":\"x\"}" ->
         [err |-> NoError, data |-> MapData([k \in {filesKey} |-> JsonValue("\"x\"")])]
    [] OTHER ->
         [err |-> "invalid character", data |-> NilData]

\* files[key] on a map[string][]byte: the zero value (no bytes) when absent
FileLookup(files, key) == IF key \in DOMAIN files THEN files[key] ELSE ""

\* ActionHandler: what each registered handler returns for a tree
\* (redirect, templateName, data, error)
HandlerReturn(handler, data) ==
  CASE handler = "hRender" ->
         [redirect |-> IF "Id" \in DOMAIN data.m THEN "/view/7" ELSE "",
          templateName |-> "view.html",
          data |-> IF filesKey \in DOMAIN data.m THEN "{\"Uploaded\":true}" ELSE "{\"Uploaded\":false}",
          err |-> NoError]
    [] handler = "hRaw" ->
         [redirect |-> "", templateName |-> "unused.html", data |-> "raw bytes", err |-> NoError]
    [] OTHER ->
         [redirect |-> "/partial", templateName |-> "error.html", data |-> "partial bytes",
          err |-> IF data.isNil THEN "no data" ELSE "db down"]

\* ------------------------------------------------------------ the calls
NoReturn == [redirect |-> "", templateName |-> "", data |-> "", err |-> NoError]
\* a nil *pb.ProcessResponse / *pb.WidgetResponse
NoProcessResponse == [present |-> FALSE, redirect |-> "", templateName |-> "", data |-> ""]
NoWidgetResponse == [present |-> FALSE, name |-> "", actions |-> <<>>]

\* a caller that is in no call
IdleCall ==
  [op |-> "none", pc |-> "Idle", trace |-> <<>>,
   widgetName |-> "", actionName |-> "", sent |-> NoFiles, files |-> NoFiles,
   action |-> NoAction, data |-> NilData,
   invoked |-> 0, handed |-> NilData, ret |-> NoReturn,
   resp |-> NoProcessResponse, widgetResp |-> NoWidgetResponse,
   err |-> NoError, log |-> <<>>]

\* a pb.ProcessRequest as the transport hands it to Process
NewProcessCall(widgetName, actionName, files) ==
  [IdleCall EXCEPT !.op = "Process", !.pc = "Received", !.trace = <<"Received">>,
                   !.widgetName = widgetName, !.actionName = actionName,
                   !.sent = files, !.files = files]

\* the request files a caller sends: the primary payload or none, and other files
RequestFiles ==
  { [f \in others \cup primary |-> IF f = dataKey THEN bytes ELSE FileBytes(f)] :
      others \in SUBSET OtherFileNames, primary \in {{}, {dataKey}}, bytes \in PayloadBytes }

\* return nil, err
Fail(call, err) ==
  [call EXCEPT !.pc = "Failed", !.trace = Append(@, "Failed"), !.err = err]

\* s.logger.ErrorContext(ctx, msg, zap.Error(err))
Logged(call, msg, err) ==
  [call EXCEPT !.log = Append(@, [msg |-> msg, err |-> err])]

\* ------------------------------------------------- Process, step by step
\* ResolveStep reporting every failed lookup as a missing widget
ResolveStepOneError(call, ws, hp) ==
  IF call.widgetName \notin DOMAIN ws \/ call.actionName \notin DOMAIN hp[ws[call.widgetName]]
    THEN [call EXCEPT !.pc = "Failed", !.trace = Append(@, "Failed"), !.err = errWidgetNotFound]
    ELSE [call EXCEPT !.pc = "Resolved", !.trace = Append(@, "Resolved"),
                      !.action = hp[ws[call.widgetName]][call.actionName]]

\* Process, lines 91-98: resolve the widget, then the action in it
ResolveStep(call, ws, hp) ==
  IF call.widgetName \notin DOMAIN ws
    THEN Fail(call, errWidgetNotFound)
    ELSE LET widget == hp[ws[call.widgetName]] IN
         IF call.actionName \notin DOMAIN widget
           THEN Fail(call, errActionNotFound)
           ELSE [call EXCEPT !.pc = "Resolved", !.trace = Append(@, "Resolved"),
                             !.action = widget[call.actionName]]

\* DecodeStep returning the decode error itself, unlogged
DecodeStepLeaky(call) ==
  LET decoded == Unmarshal(FileLookup(call.files, dataKey))
  IN IF decoded.err # NoError
       THEN [call EXCEPT !.pc = "Failed", !.trace = Append(@, "Failed"), !.err = decoded.err]
       ELSE [call EXCEPT !.pc = "Decoded", !.trace = Append(@, "Decoded"),
                         !.data = decoded.data]

\* DecodeStep that takes a missing or empty primary payload for an empty tree
DecodeStepSkipsEmpty(call) ==
  LET dataBytes == FileLookup(call.files, dataKey)
      decoded == IF dataBytes = "" THEN [err |-> NoError, data |-> MapData(EmptyMap)]
                 ELSE Unmarshal(dataBytes)
  IN IF decoded.err # NoError
       THEN Fail(Logged(call, "Failed to unmarshal data.json from call", decoded.err),
                 errInternal)
       ELSE [call EXCEPT !.pc = "Decoded", !.trace = Append(@, "Decoded"),
                         !.data = decoded.data]

\* Process, lines 100-107: decode the primary payload
DecodeStep(call) ==
  LET dataBytes == FileLookup(call.files, dataKey)
      decoded == Unmarshal(dataBytes)
  IN IF decoded.err # NoError
       THEN Fail(Logged(call, "Failed to unmarshal data.json from call", decoded.err),
                 errInternal)
       ELSE [call EXCEPT !.pc = "Decoded", !.trace = Append(@, "Decoded"),
                         !.data = decoded.data]

\* Process, lines 110-114: delete(files, dataKey), then data[filesKey] = files
\* when files remain.  Assigning to an entry of the nil map panics.
AttachPanics(call) ==
  /\ DOMAIN Delete(call.files, dataKey) # {}
  /\ call.data.isNil

AttachFiles(call) ==
  LET files == Delete(call.files, dataKey) IN
  [call EXCEPT !.files = files,
               !.data = IF DOMAIN files # {}
                          THEN MapData(Put(call.data.m, filesKey, FilesValue(files)))
                          ELSE @]

\* Process, lines 108-116: attach the files and call the handler; a panic
\* unwinds Process, which returns nothing
InvokeStep(call) ==
  IF AttachPanics(call)
    THEN [call EXCEPT !.pc = "Panicked", !.trace = Append(@, "Panicked"),
                      !.files = Delete(@, dataKey)]
    ELSE LET attached == AttachFiles(call) IN
         [attached EXCEPT !.pc = "HandlerInvoked", !.trace = Append(@, "HandlerInvoked"),
                          !.invoked = @ + 1, !.handed = attached.data,
                          !.ret = HandlerReturn(attached.action.handler, attached.data)]

\* ReturnStep building the response before it looks at the error
ReturnStepKeepsValues(call) ==
  LET resp == [present |-> TRUE, redirect |-> call.ret.redirect,
               templateName |-> call.ret.templateName, data |-> call.ret.data]
  IN IF call.ret.err # NoError
       THEN [call EXCEPT !.pc = "Failed", !.trace = Append(@, "Failed"), !.resp = resp,
                         !.err = errInternal,
                         !.log = Append(@, [msg |-> "Failed to handle action", err |-> call.ret.err])]
       ELSE [call EXCEPT !.pc = "Succeeded", !.trace = Append(@, "Succeeded"), !.resp = resp]

\* ReturnStep sending no template name for a raw action
ReturnStepByKind(call) ==
  IF call.ret.err # NoError
    THEN [call EXCEPT !.pc = "Failed", !.trace = Append(@, "Failed"), !.err = errInternal,
                      !.log = Append(@, [msg |-> "Failed to handle action", err |-> call.ret.err])]
    ELSE [call EXCEPT !.pc = "Succeeded", !.trace = Append(@, "Succeeded"),
                      !.resp = [present |-> TRUE, redirect |-> call.ret.redirect,
                                templateName |-> IF call.action.kind = "RAW" THEN ""
                                                 ELSE call.ret.templateName,
                                data |-> call.ret.data]]

\* Process, lines 117-121: map the handler's result to the response
ReturnStep(call) ==
  IF call.ret.err # NoError
    THEN Fail(Logged(call, "Failed to handle action", call.ret.err), errInternal)
    ELSE [call EXCEPT !.pc = "Succeeded", !.trace = Append(@, "Succeeded"),
                      !.resp = [present |-> TRUE, redirect |-> call.ret.redirect,
                                templateName |-> call.ret.templateName,
                                data |-> call.ret.data]]

Finished(call) == call.pc \in {"Succeeded", "Failed", "Panicked"}
InFlight(call) == call.pc \in {"Received", "Resolved", "Decoded", "HandlerInvoked"}

\* the next step of Process for a call in flight
ProcessStep(call, ws, hp) ==
  CASE call.pc = "Received" -> ResolveStep(call, ws, hp)
    [] call.pc = "Resolved" -> DecodeStep(call)
    [] call.pc = "Decoded" -> InvokeStep(call)
    [] call.pc = "HandlerInvoked" -> ReturnStep(call)
    [] OTHER -> call

\* func (s widgetServerAdapter) Process: one whole call
RECURSIVE RunProcess(_, _, _)
RunProcess(call, ws, hp) ==
  IF InFlight(call) THEN RunProcess(ProcessStep(call, ws, hp), ws, hp) ELSE call

\* ------------------------------------------------------------- Describe
\* the orders in which ranging over a map with these keys may visit them
RECURSIVE Orders(_)
Orders(keys) ==
  IF keys = {} THEN { <<>> }
  ELSE UNION { { <<k>> \o rest : rest \in Orders(keys \ {k}) } : k \in keys }

\* convertActions leaving QueryNames out of the pb.Action
convertActionsNoQuery(widget, order) ==
  [i \in 1..Len(order) |->
     [Kind |-> widget[order[i]].kind, Name |-> order[i],
      Path |-> widget[order[i]].path, QueryNames |-> NoQueryNames]]

\* func convertActions(widget Widget) []*pb.Action
convertActions(widget, order) ==
  [i \in 1..Len(order) |->
     [Kind |-> widget[order[i]].kind, Name |-> order[i],
      Path |-> widget[order[i]].path, QueryNames |-> widget[order[i]].queryNames]]

\* func (s widgetServerAdapter) GetWidget: one whole call
RunGetWidget(widgetName, order, ws, hp) ==
  LET call == [IdleCall EXCEPT !.op = "GetWidget", !.widgetName = widgetName] IN
  IF widgetName \notin DOMAIN ws
    THEN [call EXCEPT !.pc = "Failed", !.err = errWidgetNotFound]
    ELSE [call EXCEPT !.pc = "Succeeded",
                      !.widgetResp = [present |-> TRUE, name |-> widgetName,
                                      actions |-> convertActions(hp[ws[widgetName]], order)]]

\* the orders GetWidget may range over the named widget in
WidgetOrders(widgetName, ws, hp) ==
  IF widgetName \in DOMAIN ws THEN Orders(DOMAIN hp[ws[widgetName]]) ELSE { <<>> }

\* ------------------------------------------------- helpers (helper.go)
errNotInt == "value is not an int"
errNotMap == "value is not a map"
errFilesType == "field Files is not of the expected type"
errNotSlice == "value is not a slice"
errNotString == "value is not a string"

\* the longest string handed to a helper
MaxStrLen == 2

\* an integer high * 2^63 + low, for the values around 0, 2^63 and 2^64
Num(high, low) == [high |-> high, low |-> low]
Zero == Num(0, 0)
IsNegative(n) == n.high < 0 \/ (n.high = 0 /\ n.low < 0)

\* a value of type any: its dynamic type and, by type, what it holds
\* (isNil: a nil map or a nil slice of that type)
AnyValue(type, isNil, n, frac, text, m, s, b) ==
  [type |-> type, isNil |-> isNil, n |-> n, frac |-> frac, text |-> text,
   m |-> m, s |-> s, b |-> b]
NilValue == AnyValue("nil", TRUE, Zero, 0, <<>>, EmptyMap, <<>>, FALSE)
MapValue(m) == AnyValue("Data", FALSE, Zero, 0, <<>>, m, <<>>, FALSE)
NilMapValue == AnyValue("Data", TRUE, Zero, 0, <<>>, EmptyMap, <<>>, FALSE)
SliceValue(s) == AnyValue("[]any", FALSE, Zero, 0, <<>>, EmptyMap, s, FALSE)
NilSliceValue == AnyValue("[]any", TRUE, Zero, 0, <<>>, EmptyMap, <<>>, FALSE)
StringValue(text) == AnyValue("string", FALSE, Zero, 0, text, EmptyMap, <<>>, FALSE)
BoolValue(b) == AnyValue("bool", FALSE, Zero, 0, <<>>, EmptyMap, <<>>, b)
IntValue(type, n) == AnyValue(type, FALSE, n, 0, <<>>, EmptyMap, <<>>, FALSE)
FloatValue(type, n, frac) == AnyValue(type, FALSE, n, frac, <<>>, EmptyMap, <<>>, FALSE)
BytesMapValue(m) == AnyValue("map[string][]byte", FALSE, Zero, 0, <<>>, m, <<>>, FALSE)

UnsignedTypes == {"uint", "uint8", "uint16", "uint32", "uint64"}
SignedTypes == {"int", "int8", "int16", "int32", "int64"}
FloatTypes == {"float32", "float64"}

\* the characters of the strings handed to a helper, and those of them that are digits
Digits == <<"0", "1", "2", "3", "4", "5", "6", "7", "8", "9">>
DigitChars == {Digits[i] : i \in 1..10}
Alphabet == {"0", "1", "7", "-", "a"}
Strings == UNION {[1..len -> Alphabet] : len \in 0..MaxStrLen}

\* the values handed to the helpers
Values ==
  {NilValue, NilMapValue, MapValue(EmptyMap), MapValue([k \in {"Id"} |-> 7]),
   NilSliceValue, SliceValue(<<1>>), SliceValue(<<1, 2>>),
   BoolValue(TRUE), BytesMapValue([k \in {"a.png"} |-> "bytes"])}
    \cup {StringValue(text) : text \in Strings}
    \cup {IntValue(type, Num(0, low)) : type \in UnsignedTypes, low \in {0, 7, 255}}
    \cup {IntValue("uint64", Num(2, -1)), IntValue("uint64", Num(1, 0))}
    \cup {IntValue(type, Num(0, low)) : type \in SignedTypes, low \in {-1, 0, 7}}
    \cup {IntValue("int64", Num(-1, 0)), IntValue("int64", Num(1, -1))}
    \cup {FloatValue(type, Num(0, low), frac) : type \in FloatTypes, low \in {0, 7}, frac \in {0, 5}}
    \cup {FloatValue("float64", Num(0, -1), 0), FloatValue("float64", Num(0, 0), -5)}

\* what a helper returns: (value, error)
Result(out, err) == [out |-> out, err |-> err]

\* AsMap that takes nil for a value of the wrong type
AsMapNilIsError(value) ==
  IF value.type = "Data" THEN Result(value, NoError) ELSE Result(NilMapValue, errNotMap)

\* func AsMap(value any) (Data, error)
AsMap(value) ==
  IF value.type = "nil" THEN Result(NilMapValue, NoError)
  ELSE IF value.type # "Data" THEN Result(NilMapValue, errNotMap)
  ELSE Result(value, NoError)

\* func AsSlice(value any) ([]any, error)
AsSlice(value) ==
  IF value.type = "nil" THEN Result(NilSliceValue, NoError)
  ELSE IF value.type # "[]any" THEN Result(NilSliceValue, errNotSlice)
  ELSE Result(value, NoError)

\* func AsString(value any) (string, error)
AsString(value) ==
  IF value.type = "nil" THEN Result(StringValue(<<>>), NoError)
  ELSE IF value.type # "string" THEN Result(StringValue(<<>>), errNotString)
  ELSE Result(value, NoError)

\* the number a string of digits denotes, read from the left as ParseUint does
RECURSIVE DigitsValue(_, _)
DigitsValue(text, acc) ==
  IF text = <<>> THEN acc
  ELSE DigitsValue(Tail(text),
                   acc * 10 + (CHOOSE d \in 0..9 : Digits[d + 1] = Head(text)))

\* strconv.ParseUint(text, 10, 64) on a string shorter than the 20 digits of 2^64:
\* no sign, no underscore, at least one digit
errSyntax == "strconv.ParseUint: parsing: invalid syntax"
ParseUint(text) ==
  IF text = <<>> \/ \E i \in 1..Len(text) : text[i] \notin DigitChars
    THEN [val |-> Zero, err |-> errSyntax]
    ELSE [val |-> Num(0, DigitsValue(text, 0)), err |-> NoError]

\* uint64(casted) on an integer: the value modulo 2^64
Uint64OfInt(n) == IF IsNegative(n) THEN Num(n.high + 2, n.low) ELSE n

\* uint64(casted) on a float: the fraction is dropped; for a value that uint64
\* cannot hold the result depends on the implementation
Uint64OfFloat(n, frac) ==
  IF IsNegative(n) THEN {Zero, Num(1, 0), Uint64OfInt(n)} ELSE {n}

\* func AsUint64(value any) (uint64, error): the results it can return
AsUint64(value) ==
  IF value.type = "nil" THEN {Result(IntValue("uint64", Zero), NoError)}
  ELSE IF value.type \in UnsignedTypes \cup SignedTypes
    THEN {Result(IntValue("uint64", Uint64OfInt(value.n)), NoError)}
  ELSE IF value.type \in FloatTypes
    THEN {Result(IntValue("uint64", n), NoError) : n \in Uint64OfFloat(value.n, value.frac)}
  ELSE IF value.type = "string"
    THEN LET parsed == ParseUint(value.text)
         IN IF parsed.err # NoError
              THEN {Result(IntValue("uint64", Zero), parsed.err)}
              ELSE {Result(IntValue("uint64", parsed.val), NoError)}
  ELSE {Result(IntValue("uint64", Zero), errNotInt)}

\* func GetFiles(data Data) (map[string][]byte, error) on a tree as Process
\* builds it: a JSON null decodes to a nil value
GetFiles(data) ==
  IF filesKey \notin DOMAIN data.m
    THEN [files |-> NoFiles, err |-> NoError]
  ELSE LET value == data.m[filesKey] IN
       IF value.kind = "json" /\ value.json = "null"
         THEN [files |-> NoFiles, err |-> NoError]
       ELSE IF value.kind # "files"
         THEN [files |-> NoFiles, err |-> errFilesType]
       ELSE [files |-> value.files, err |-> NoError]

\* no helper of helper.go has been called
NoHelperCall == [fn |-> "none", arg |-> NilValue, out |-> NilValue, err |-> NoError]

\* ------------------------------------------------------------- actions
Init ==
  /\ widgets = EmptyMap
  /\ heap = <<>>
  /\ created = 0
  /\ started = FALSE
  /\ calls = [c \in Callers |-> IdleCall]
  /\ fatal = FALSE
  /\ nRegs = 0
  /\ registeredAtStart = EmptyMap
  /\ lastReg = NoReg
  /\ handles = EmptyMap
  /\ helper = NoHelperCall

\* Process that registers an empty widget under a name it does not find
ProcessRegistersWidget(c, widgetName, actionName, files) ==
  /\ Alive
  /\ started
  /\ calls[c].pc = "Idle"
  /\ IF widgetName \in DOMAIN widgets
       THEN UNCHANGED <<widgets, heap>>
       ELSE /\ heap' = Append(heap, EmptyWidget)
            /\ widgets' = Put(widgets, widgetName, Len(heap) + 1)
  /\ calls' = [calls EXCEPT ![c] =
                 RunProcess(NewProcessCall(widgetName, actionName, files), widgets', heap')]
  /\ lastReg' = NoReg
  /\ UNCHANGED <<created, started, fatal, nRegs, registeredAtStart, handles, helper>>

\* the serving side: one whole Process call of caller c
Process(c, widgetName, actionName, files) ==
  /\ Alive
  /\ started
  /\ calls[c].pc = "Idle"
  /\ calls' = [calls EXCEPT ![c] =
                 RunProcess(NewProcessCall(widgetName, actionName, files), AdapterWidgets, heap)]
  /\ lastReg' = NoReg
  /\ UNCHANGED <<widgets, heap, created, started, fatal, nRegs, registeredAtStart,
                 handles, helper>>

\* the serving side: one whole GetWidget call of caller c
GetWidget(c, widgetName, order) ==
  /\ Alive
  /\ started
  /\ calls[c].pc = "Idle"
  /\ order \in WidgetOrders(widgetName, AdapterWidgets, heap)
  /\ calls' = [calls EXCEPT ![c] = RunGetWidget(widgetName, order, AdapterWidgets, heap)]
  /\ lastReg' = NoReg
  /\ UNCHANGED <<widgets, heap, created, started, fatal, nRegs, registeredAtStart,
                 handles, helper>>

\* the transport hands a request to Process in a goroutine of its own
Receive(c, widgetName, actionName, files) ==
  /\ Alive
  /\ started
  /\ calls[c].pc = "Idle"
  /\ calls' = [calls EXCEPT ![c] = NewProcessCall(widgetName, actionName, files)]
  /\ lastReg' = NoReg
  /\ UNCHANGED <<widgets, heap, created, started, fatal, nRegs, registeredAtStart,
                 handles, helper>>

\* Process steps that keep the request files in one map shared by the callers
StepSharesFiles(c) ==
  LET others == {d \in Callers \ {c} : InFlight(calls[d])}
      mine == calls[c].files
      shared == IF others = {} THEN mine
                ELSE LET theirs == calls[CHOOSE d \in others : TRUE].files
                     IN [f \in DOMAIN mine \cup DOMAIN theirs |->
                           IF f \in DOMAIN mine THEN mine[f] ELSE theirs[f]]
  IN /\ Alive
     /\ InFlight(calls[c])
     /\ calls' = [calls EXCEPT ![c] = ProcessStep([@ EXCEPT !.files = shared],
                                                  AdapterWidgets, heap)]
     /\ lastReg' = NoReg
     /\ UNCHANGED <<widgets, heap, created, started, fatal, nRegs, registeredAtStart,
                    handles, helper>>

\* the goroutine of caller c runs the next step of Process
Step(c) ==
  /\ Alive
  /\ InFlight(calls[c])
  /\ calls' = [calls EXCEPT ![c] = ProcessStep(@, AdapterWidgets, heap)]
  /\ lastReg' = NoReg
  /\ UNCHANGED <<widgets, heap, created, started, fatal, nRegs, registeredAtStart,
                 handles, helper>>

\* the transport has sent the outcome of caller c's call
Return(c) ==
  /\ Alive
  /\ Finished(calls[c])
  /\ calls' = [calls EXCEPT ![c] = IdleCall]
  /\ lastReg' = NoReg
  /\ UNCHANGED <<widgets, heap, created, started, fatal, nRegs, registeredAtStart,
                 handles, helper>>

\* ------------------------------------- the builder, then one call at a time
BuildCreateWidget ==
  \E w \in WidgetNames : ~started /\ CreateWidget(w)

BuildAddAction ==
  \E w \in 1..Len(heap), a \in ActionNames, in \in ActionInputs :
    ~started /\ AddAction(w, a, in.kind, in.path, in.handler)

BuildAddActionWithQuery ==
  \E w \in 1..Len(heap), a \in ActionNames, in \in ActionInputs, q \in QueryInputs :
    ~started /\ AddActionWithQuery(w, a, in.kind, in.path, q, in.handler)

ServeProcess ==
  \E w \in WidgetNames, a \in ActionNames, files \in RequestFiles :
    Process(1, w, a, files)

ServeGetWidget ==
  \E w \in WidgetNames :
    \E order \in WidgetOrders(w, AdapterWidgets, heap) : GetWidget(1, w, order)

Next ==
  \/ BuildCreateWidget
  \/ BuildAddAction
  \/ BuildAddActionWithQuery
  \/ Start
  \/ ServeProcess
  \/ ServeGetWidget
  \/ Return(1)

Spec == Init /\ [][Next]_vars

\* ------------------------------------ the builder, then concurrent callers
\* what the builder registers before concurrent callers are let in
ConcurrentActionInputs == { in \in ActionInputs : in.handler \in {"hRender", "hFail"} }

\* the requests concurrent callers send
ConcurrentRequests ==
  { [widgetName |-> "home", actionName |-> "view",
     files |-> [f \in {dataKey} |-> "{}"]],
    [widgetName |-> "home", actionName |-> "view",
     files |-> [f \in {dataKey, FilePool[1]} |-> IF f = dataKey THEN "{}" ELSE FileBytes(f)]],
    [widgetName |-> "home", actionName |-> "view",
     files |-> [f \in {dataKey, FilePool[1]} |-> IF f = dataKey THEN "null" ELSE FileBytes(f)]],
    [widgetName |-> "home", actionName |-> "view",
     files |-> [f \in {dataKey} |-> "{bad"]],
    [widgetName |-> "blog", actionName |-> "view",
     files |-> [f \in {dataKey} |-> "{bad"]],
    [widgetName |-> "home", actionName |-> "save",
     files |-> [f \in {dataKey} |-> "{bad"]] }

SetupCreateWidget ==
  ~started /\ CreateWidget("home")

SetupAddAction ==
  \E w \in 1..Len(heap), in \in ConcurrentActionInputs :
    ~started /\ AddAction(w, "view", in.kind, in.path, in.handler)

ConcurrentReceive ==
  \E c \in Callers, r \in ConcurrentRequests :
    Receive(c, r.widgetName, r.actionName, r.files)

ConcurrentStep ==
  \E c \in Callers : Step(c)

ConcurrentReturn ==
  \E c \in Callers : Return(c)

ConcurrentGetWidget ==
  \E c \in Callers, w \in WidgetNames :
    \E order \in WidgetOrders(w, AdapterWidgets, heap) : GetWidget(c, w, order)

NextConcurrent ==
  \/ SetupCreateWidget
  \/ SetupAddAction
  \/ Start
  \/ ConcurrentReceive
  \/ ConcurrentStep
  \/ ConcurrentReturn
  \/ ConcurrentGetWidget

SpecConcurrent == Init /\ [][NextConcurrent]_vars

\* --------------------------- registration calls made after Start() as well
\* (another goroutine, or a handler, that kept the WidgetServer or a Widget)
LateActionInputs == { in \in ActionInputs : in.handler = "hRender" }

\* the requests callers send while registration goes on
LateRequests ==
  { r \in ConcurrentRequests :
      r.actionName = "view" /\ r.files \in { [f \in {dataKey} |-> "{}"], [f \in {dataKey} |-> "{bad"] } }

LateCreateWidget ==
  started /\ CreateWidget("blog")

LateAddAction ==
  \E w \in 1..Len(heap), in \in LateActionInputs :
    started /\ AddAction(w, "view", in.kind, in.path, in.handler)

LateReceive ==
  \E c \in Callers, r \in LateRequests :
    Receive(c, r.widgetName, r.actionName, r.files)

\* a registration call writes a map while a Process call is reading the
\* registry (lines 91-95), with nothing ordering the two: one outcome of the
\* race is the runtime's "fatal error: concurrent map read and map write"
LateRace ==
  /\ Alive
  /\ started
  /\ nRegs < MaxRegistrations
  /\ \E c \in Callers : calls[c].pc = "Received"
  /\ fatal' = TRUE
  /\ nRegs' = nRegs + 1
  /\ lastReg' = NoReg
  /\ UNCHANGED <<widgets, heap, created, started, calls, registeredAtStart, handles, helper>>

NextLate ==
  \/ SetupCreateWidget
  \/ SetupAddAction
  \/ Start
  \/ LateReceive
  \/ ConcurrentStep
  \/ ConcurrentReturn
  \/ ConcurrentGetWidget
  \/ LateCreateWidget
  \/ LateAddAction
  \/ LateRace

SpecLate == Init /\ [][NextLate]_vars

\* ------------------------------------------- the helpers, one call each
\* a value of the pool is about to be handed to a helper
InitHelpers ==
  /\ widgets = EmptyMap
  /\ heap = <<>>
  /\ created = 0
  /\ started = FALSE
  /\ calls = [c \in Callers |-> IdleCall]
  /\ fatal = FALSE
  /\ nRegs = 0
  /\ registeredAtStart = EmptyMap
  /\ lastReg = NoReg
  /\ handles = EmptyMap
  /\ helper \in {[NoHelperCall EXCEPT !.arg = value] : value \in Values}

\* the helper fn returns result for the value at hand
Returned(fn, result) ==
  /\ helper.fn = "none"
  /\ helper' = [fn |-> fn, arg |-> helper.arg, out |-> result.out, err |-> result.err]
  /\ UNCHANGED <<widgets, heap, created, started, calls, fatal, nRegs, registeredAtStart,
                 lastReg, handles>>

CallAsMap == Returned("AsMap", AsMap(helper.arg))
CallAsSlice == Returned("AsSlice", AsSlice(helper.arg))
CallAsString == Returned("AsString", AsString(helper.arg))
CallAsUint64 == \E result \in AsUint64(helper.arg) : Returned("AsUint64", result)

NextHelpers ==
  \/ CallAsMap
  \/ CallAsSlice
  \/ CallAsString
  \/ CallAsUint64

SpecHelpers == InitHelpers /\ [][NextHelpers]_vars

\* ================================================================ claims
ProcessCalls == { c \in Callers : calls[c].op = "Process" }
FinishedProcessCalls == { c \in ProcessCalls : Finished(calls[c]) }
GetWidgetCalls == { c \in Callers : calls[c].op = "GetWidget" }

\* the request names a registered widget and an action registered in it
Resolves(call, reg) ==
  /\ call.widgetName \in DOMAIN reg
  /\ call.actionName \in DOMAIN reg[call.widgetName]

\* what decoding the primary payload the caller sent yields
SentDecode(call) == Unmarshal(FileLookup(call.sent, dataKey))

\* the files the caller sent other than the primary payload
SentOthers(call) == Delete(call.sent, dataKey)

\* C1: a Process call whose widget name is not a key of the registry returns
\* WidgetNotFound; one whose widget is registered but whose action name is not
\* a key of that widget returns ActionNotFound; in both cases it returns no
\* response and no handler has been invoked.
C1_NotFoundErrors ==
  \A c \in FinishedProcessCalls :
    LET call == calls[c] IN
    /\ call.widgetName \notin DOMAIN Registry =>
         /\ call.err = errWidgetNotFound
         /\ call.resp = NoProcessResponse
         /\ call.invoked = 0
    /\ (call.widgetName \in DOMAIN Registry
        /\ call.actionName \notin DOMAIN Registry[call.widgetName]) =>
         /\ call.err = errActionNotFound
         /\ call.resp = NoProcessResponse
         /\ call.invoked = 0

\* C1 witness: a call for a registered widget that holds another action, but
\* not the one asked for, has ended with ActionNotFound.
C1_Witness ==
  \E c \in FinishedProcessCalls :
    /\ calls[c].widgetName \in DOMAIN Registry
    /\ DOMAIN Registry[calls[c].widgetName] # {}
    /\ calls[c].actionName \notin DOMAIN Registry[calls[c].widgetName]
    /\ calls[c].err = errActionNotFound

\* C2: a Process call that resolves and whose primary-payload bytes do not
\* decode returns the generic Internal error; the decode error is in the log
\* exactly once and is the only entry; the returned error is not the decode
\* error; no handler has been invoked.
C2_MalformedPayload ==
  \A c \in FinishedProcessCalls :
    LET call == calls[c] IN
    (Resolves(call, Registry) /\ dataKey \in DOMAIN call.sent
     /\ SentDecode(call).err # NoError) =>
      /\ call.pc = "Failed"
      /\ call.err = errInternal
      /\ call.err # SentDecode(call).err
      /\ call.resp = NoProcessResponse
      /\ Len(call.log) = 1
      /\ call.log[1].err = SentDecode(call).err
      /\ call.invoked = 0

\* C2 witness: a resolving call with malformed payload bytes has ended.
C2_Witness ==
  \E c \in FinishedProcessCalls :
    /\ Resolves(calls[c], Registry)
    /\ dataKey \in DOMAIN calls[c].sent
    /\ calls[c].sent[dataKey] = "{bad"
    /\ calls[c].err = errInternal

\* C3: whenever the handler returned an error, Process returns the generic
\* Internal error whatever that error was, has logged the handler's error
\* exactly once, and returns no redirect, template name or payload.
C3_HandlerError ==
  \A c \in FinishedProcessCalls :
    LET call == calls[c] IN
    (call.invoked > 0 /\ call.ret.err # NoError) =>
      /\ call.pc = "Failed"
      /\ call.err = errInternal
      /\ call.resp = NoProcessResponse
      /\ call.log = << [msg |-> "Failed to handle action", err |-> call.ret.err] >>

\* C3 witness: a handler that returned an error together with a non-empty
\* redirect, template name and payload, and the call has ended.
C3_Witness ==
  \E c \in FinishedProcessCalls :
    /\ calls[c].invoked = 1
    /\ calls[c].ret.err = "db down"
    /\ calls[c].ret.redirect # ""
    /\ calls[c].ret.templateName # ""
    /\ calls[c].ret.data # ""

\* C4: whenever the handler returned without error, Process returns a
\* response holding exactly the handler's redirect, template name and
\* payload, whatever the kind of the action.
C4_HandlerValues ==
  \A c \in FinishedProcessCalls :
    LET call == calls[c] IN
    (call.invoked > 0 /\ call.ret.err = NoError) =>
      /\ call.pc = "Succeeded"
      /\ call.err = NoError
      /\ call.resp = [present |-> TRUE, redirect |-> call.ret.redirect,
                      templateName |-> call.ret.templateName, data |-> call.ret.data]
      /\ call.log = <<>>

\* C4 witness: a raw action whose handler returned a non-empty template name
\* has succeeded.
C4_Witness ==
  \E c \in FinishedProcessCalls :
    /\ calls[c].pc = "Succeeded"
    /\ calls[c].action.kind = "RAW"
    /\ calls[c].ret.templateName # ""

\* C5: for every resolving request whose primary payload decodes without
\* error, the handler is given a tree whose files do not hold the primary
\* payload entry, and the tree holds a Files key if and only if the request
\* carried a file other than the primary payload; when present, Files maps
\* exactly those other filenames to their bytes.
C5_FilesAttached ==
  \A c \in FinishedProcessCalls :
    LET call == calls[c] IN
    (Resolves(call, Registry) /\ SentDecode(call).err = NoError) =>
      /\ call.invoked = 1
      /\ (filesKey \in DOMAIN call.handed.m) <=> (DOMAIN SentOthers(call) # {})
      /\ filesKey \in DOMAIN call.handed.m =>
           /\ call.handed.m[filesKey] = FilesValue(SentOthers(call))
           /\ dataKey \notin DOMAIN call.handed.m[filesKey].files

\* C6: every call of GetWidget or Process ends with a response, or with one
\* of WidgetNotFound, ActionNotFound and Internal and no response; it never
\* ends in any other way.
C6_OnlyListedErrors ==
  \A c \in Callers :
    LET call == calls[c] IN
    (call.op # "none" /\ ~InFlight(call)) =>
      \/ /\ call.pc = "Succeeded"
         /\ call.err = NoError
         /\ (call.resp.present \/ call.widgetResp.present)
      \/ /\ call.pc = "Failed"
         /\ call.err \in {errWidgetNotFound, errActionNotFound, errInternal}
         /\ ~call.resp.present
         /\ ~call.widgetResp.present

\* C7: GetWidget fails with WidgetNotFound when the widget is not registered;
\* otherwise it returns the widget name and exactly one pb.Action per action
\* registered in that widget, each with that action's name, kind, path and
\* query names; a registered widget without actions yields no pb.Action and
\* no error.
C7_Describe ==
  \A c \in GetWidgetCalls :
    LET call == calls[c]
        resp == call.widgetResp
    IN IF call.widgetName \notin DOMAIN Registry
         THEN call.pc = "Failed" /\ call.err = errWidgetNotFound /\ resp = NoWidgetResponse
         ELSE LET widget == Registry[call.widgetName] IN
              /\ call.pc = "Succeeded"
              /\ call.err = NoError
              /\ resp.present
              /\ resp.name = call.widgetName
              /\ Len(resp.actions) = Cardinality(DOMAIN widget)
              /\ { resp.actions[i].Name : i \in 1..Len(resp.actions) } = DOMAIN widget
              /\ \A i \in 1..Len(resp.actions) :
                   LET a == resp.actions[i] IN
                   /\ a.Kind = widget[a.Name].kind
                   /\ a.Path = widget[a.Name].path
                   /\ a.QueryNames = widget[a.Name].queryNames

\* C7 witness: a described widget with two actions, one of them registered
\* with query names, while another widget is registered too.
C7_Witness ==
  \E c \in GetWidgetCalls :
    /\ calls[c].widgetResp.present
    /\ Len(calls[c].widgetResp.actions) = 2
    /\ \E i \in 1..2 : calls[c].widgetResp.actions[i].QueryNames # NoQueryNames
    /\ DOMAIN Registry # {calls[c].widgetName}

\* the stages of a request and the order the state machine allows them in
StageTransitions ==
  { <<"Received", "Resolved">>, <<"Received", "Failed">>,
    <<"Resolved", "Decoded">>, <<"Resolved", "Failed">>,
    <<"Decoded", "HandlerInvoked">>,
    <<"HandlerInvoked", "Succeeded">>, <<"HandlerInvoked", "Failed">> }

\* the error a request that failed right after `stage` ends with
StageErrors(stage) ==
  CASE stage = "Received" -> {errWidgetNotFound, errActionNotFound}
    [] stage = "Resolved" -> {errInternal}
    [] stage = "HandlerInvoked" -> {errInternal}
    [] OTHER -> {}

\* the stages a request went through follow the state machine
OrderedStages(call) ==
  /\ call.trace[1] = "Received"
  /\ \A i \in 1..(Len(call.trace) - 1) :
       <<call.trace[i], call.trace[i + 1]>> \in StageTransitions

\* C8: the stages of a Process call occur only in the order Received ->
\* Resolved -> Decoded -> HandlerInvoked -> {Succeeded | Failed}: the handler
\* is invoked at most once and only after resolution and decoding succeeded;
\* a call that fails ends with the error of the stage it failed in; a call
\* that does not resolve fails with the resolution error whatever its payload.
C8_StageMachine ==
  \A c \in ProcessCalls :
    LET call == calls[c]
        n == Len(call.trace)
    IN /\ OrderedStages(call)
       /\ call.pc = call.trace[n]
       /\ call.invoked <= 1
       /\ call.invoked = 1 <=>
            \E i \in 1..n : call.trace[i] = "HandlerInvoked"
       /\ ~InFlight(call) => call.pc \in {"Succeeded", "Failed"}
       /\ call.pc = "Failed" => call.err \in StageErrors(call.trace[n - 1])
       /\ (call.pc # "Received" /\ ~Resolves(call, Registry)) =>
            /\ call.pc = "Failed"
            /\ n = 2
            /\ call.err \in {errWidgetNotFound, errActionNotFound}
            /\ call.log = <<>>

\* Apart from a call that a panic unwinds, the stages do follow that order:
\* C8 with the panic taken as one more way for a call to end after Decoded.
StagesOrderedUnlessPanicked ==
  \A c \in ProcessCalls :
    LET call == calls[c]
        n == Len(call.trace)
    IN /\ call.trace[1] = "Received"
       /\ \A i \in 1..(n - 1) :
            <<call.trace[i], call.trace[i + 1]>> \in
               StageTransitions \cup { <<"Decoded", "Panicked">> }
       /\ call.invoked <= 1
       /\ call.pc = "Failed" => call.err \in StageErrors(call.trace[n - 1])

\* the registry as the adapter resolves against it
Resolvable == Deep(AdapterWidgets, heap)

\* the call resolved, or failed to, as the registry `reg` decides
ResolvedAgainst(call, reg) ==
  IF call.widgetName \notin DOMAIN reg
    THEN call.pc = "Failed" /\ call.err = errWidgetNotFound
    ELSE IF call.actionName \notin DOMAIN reg[call.widgetName]
           THEN call.pc = "Failed" /\ call.err = errActionNotFound
           ELSE /\ call.trace[2] = "Resolved"
                /\ call.action = reg[call.widgetName][call.actionName]

\* GetWidget answered as the registry `reg` decides
DescribedAgainst(call, reg) ==
  IF call.widgetName \notin DOMAIN reg
    THEN call.pc = "Failed" /\ call.err = errWidgetNotFound
    ELSE /\ call.widgetResp.present
         /\ { call.widgetResp.actions[i].Name : i \in 1..Len(call.widgetResp.actions) }
              = DOMAIN reg[call.widgetName]

\* C9: with any number of callers in Process and GetWidget at once, under
\* any interleaving of their steps, the registry keeps the contents it had
\* when Start() was called, and every call resolves against exactly the
\* widgets and actions registered before Start().
C9_ConcurrentCallsSeeStartRegistry ==
  started =>
    /\ Registry = registeredAtStart
    /\ \A c \in ProcessCalls :
         calls[c].pc # "Received" => ResolvedAgainst(calls[c], registeredAtStart)
    /\ \A c \in GetWidgetCalls : DescribedAgainst(calls[c], registeredAtStart)

\* C9 witness: two callers are inside Process at once, at different stages,
\* both having resolved an action registered before Start().
C9_Witness ==
  \E c1, c2 \in ProcessCalls :
    /\ c1 # c2
    /\ calls[c1].pc = "Resolved"
    /\ calls[c2].pc = "HandlerInvoked"
    /\ calls[c1].action # NoAction
    /\ calls[c2].action # NoAction

\* C10 as stated: once Start() has been called, the widgets and actions that
\* Describe and Process resolve against are those registered when it was
\* called, whatever is performed afterwards.
C10_FrozenAfterStart ==
  started => Resolvable = registeredAtStart

\* C10 as amended: after Start() the adapter resolves against the builder's
\* own registry; no step of Start, GetWidget or Process changes it, and it
\* changes only by a registration call made after Start(), which Describe
\* and Process then resolve against.
C10_ChangedOnlyByRegistration ==
  [][started =>
       /\ Resolvable' # Resolvable => nRegs' = nRegs + 1
       /\ Resolvable' = Registry']_vars

\* C10 witness: after Start() a widget was registered and given an action,
\* and a Process call has resolved that action.
C10_Witness ==
  /\ started
  /\ \E c \in ProcessCalls :
       /\ calls[c].widgetName \notin DOMAIN registeredAtStart
       /\ calls[c].pc \in {"Resolved", "Decoded", "HandlerInvoked", "Succeeded"}
       /\ calls[c].action = Registry[calls[c].widgetName][calls[c].actionName]


\* ------------------------------------------------------------- C11
\* the step is a CreateWidget(name) call
CreateWidgetStep == lastReg'.op = "CreateWidget"

\* what a CreateWidget(name) call does to the registry and what it returns
GetOrCreate ==
  LET name == lastReg'.widgetName IN
  IF lastReg'.had
    THEN /\ name \in DOMAIN widgets
         /\ created' = widgets[name]
         /\ heap'[created'] = heap[widgets[name]]
         /\ widgets' = widgets
         /\ heap' = heap
         /\ Registry' = Registry
    ELSE /\ name \notin DOMAIN widgets
         /\ DOMAIN widgets' = DOMAIN widgets \cup {name}
         /\ created' = widgets'[name]
         /\ heap'[created'] = EmptyWidget
         /\ \A other \in DOMAIN widgets :
              widgets'[other] = widgets[other] /\ heap'[widgets'[other]] = heap[widgets[other]]

\* no step takes a registered widget name out of the registry
NeverRemoved == DOMAIN widgets \subseteq DOMAIN widgets'

\* C11: CreateWidget(name) returns the registered widget of name with its
\* actions and leaves the registry as it was when name is registered, registers
\* a new empty widget under name and changes no other widget when it is not,
\* and no step ever removes a registered widget.
C11_GetOrCreate == [][(CreateWidgetStep => GetOrCreate) /\ NeverRemoved]_vars

\* CreateWidget has just returned a registered widget that has actions
C11_Witness ==
  /\ lastReg.op = "CreateWidget"
  /\ lastReg.had
  /\ heap[created] # EmptyWidget
  /\ Cardinality(DOMAIN widgets) = 2


\* ------------------------------------------------------------- C12
\* the step is an AddAction or an AddActionWithQuery call
AddActionStep == lastReg'.op \in {"AddAction", "AddActionWithQuery"}

\* what a registration under actionName does to the Widget w and to the others
LastRegistrationWins ==
  LET w == lastReg'.w
      actionName == lastReg'.actionName
  IN /\ w \in 1..Len(heap)
     /\ Len(heap') = Len(heap)
     /\ DOMAIN heap'[w] = DOMAIN heap[w] \cup {actionName}
     /\ heap'[w][actionName].kind = lastReg'.act.kind
     /\ heap'[w][actionName].path = lastReg'.act.path
     /\ heap'[w][actionName].handler = lastReg'.act.handler
     /\ heap'[w][actionName].queryNames =
          (IF lastReg'.op = "AddAction" THEN <<>> ELSE lastReg'.act.queryNames)
     /\ \A other \in DOMAIN heap[w] \ {actionName} : heap'[w][other] = heap[w][other]
     /\ \A v \in (1..Len(heap)) \ {w} : heap'[v] = heap[v]
     /\ widgets' = widgets

\* an action of a Widget changes only by a registration on that Widget under its name
OnlyRegistrationChanges ==
  \A w \in 1..Len(heap) :
    /\ w \in 1..Len(heap')
    /\ \A actionName \in DOMAIN heap[w] :
         /\ actionName \in DOMAIN heap'[w]
         /\ heap'[w][actionName] # heap[w][actionName] =>
              AddActionStep /\ lastReg'.w = w /\ lastReg'.actionName = actionName

\* C12: a registration binds the action name to the descriptor it was given
\* (AddAction with empty query names, also over an AddActionWithQuery), it
\* always takes effect, it leaves every other action name and widget as it was,
\* and an action changes by nothing but a registration under its name, so each
\* name maps to the descriptor of the last registration made under it.
C12_LastRegistrationWins ==
  [][(AddActionStep => LastRegistrationWins) /\ OnlyRegistrationChanges]_vars

\* an AddAction has just overwritten an action registered with query names
C12_Witness ==
  /\ lastReg.op = "AddAction"
  /\ lastReg.had
  /\ lastReg.prev.queryNames # <<>>
  /\ heap[lastReg.w][lastReg.actionName].queryNames = <<>>


\* ------------------------------------------------------------- C13
\* the type a coercion helper looks for, its zero value and its TypeMismatch error
TargetType(fn) ==
  CASE fn = "AsMap" -> "Data" [] fn = "AsSlice" -> "[]any" [] OTHER -> "string"
ZeroValue(fn) ==
  CASE fn = "AsMap" -> NilMapValue [] fn = "AsSlice" -> NilSliceValue [] OTHER -> StringValue(<<>>)
TypeMismatch(fn) ==
  CASE fn = "AsMap" -> errNotMap [] fn = "AsSlice" -> errNotSlice [] OTHER -> errNotString

\* C13: AsMap, AsSlice and AsString return the zero value and no error for nil,
\* the value itself and no error for a value of the target type, and the zero
\* value with the helper's TypeMismatch error for a value of any other type.
C13_Coercions ==
  helper.fn \in {"AsMap", "AsSlice", "AsString"} =>
    IF helper.arg.type = "nil"
      THEN helper.out = ZeroValue(helper.fn) /\ helper.err = NoError
    ELSE IF helper.arg.type = TargetType(helper.fn)
      THEN helper.out = helper.arg /\ helper.err = NoError
    ELSE helper.out = ZeroValue(helper.fn) /\ helper.err = TypeMismatch(helper.fn)

\* AsMap has been handed a slice
C13_Witness ==
  /\ helper.fn = "AsMap"
  /\ helper.arg.type = "[]any"
  /\ helper.err = errNotMap


\* ------------------------------------------------------------- C14
\* the base-10 digits of a natural number, as strconv.FormatUint writes them
RECURSIVE FormatUint(_)
FormatUint(n) ==
  IF n < 10 THEN <<Digits[n + 1]>> ELSE Append(FormatUint(n \div 10), Digits[(n % 10) + 1])

\* a string of digits without its leading zeros
RECURSIVE StripZeros(_)
StripZeros(text) ==
  IF Len(text) > 1 /\ Head(text) = "0" THEN StripZeros(Tail(text)) ELSE text

\* the string is the base-10 form of a natural number
WellFormed(text) == text # <<>> /\ \A i \in 1..Len(text) : text[i] \in DigitChars

\* C14: AsUint64 returns 0 and no error for nil, the integer it was given for a
\* signed or unsigned integer of any width, the number a base-10 string denotes
\* or a parse error when the string is malformed, and 0 with the TypeMismatch
\* error for a value that is neither a number nor a string.
C14_AsUint64Equivalent ==
  helper.fn = "AsUint64" =>
    CASE helper.arg.type = "nil" ->
           helper.out.n = Zero /\ helper.err = NoError
      [] helper.arg.type \in UnsignedTypes \cup SignedTypes ->
           helper.out.n = helper.arg.n /\ helper.err = NoError
      [] helper.arg.type = "string" ->
           IF WellFormed(helper.arg.text)
             THEN /\ helper.err = NoError
                  /\ helper.out.n.high = 0
                  /\ FormatUint(helper.out.n.low) = StripZeros(helper.arg.text)
             ELSE helper.err = errSyntax /\ helper.out.n = Zero
      [] helper.arg.type \in FloatTypes -> TRUE
      [] OTHER ->
           helper.out.n = Zero /\ helper.err = errNotInt


\* ------------------------------------------------------------- C15
\* trees with the Files key absent, holding nil, holding a file map and
\* holding values of other shapes
GetFilesTrees ==
  {NilData, MapData(EmptyMap), MapData([k \in {"Id"} |-> JsonValue("7")])}
    \cup {MapData([k \in {filesKey} |-> JsonValue(text)]) : text \in {"null", "\"x\"", "7", "{}", "[1]"}}
    \cup {MapData([k \in {filesKey} |-> FilesValue([f \in {"a.png"} |-> FileBytes("a.png")])])}

\* what GetFiles returns by the shape of the Files entry
GetFilesByShape(tree) ==
  IF filesKey \notin DOMAIN tree.m \/ tree.m[filesKey] = JsonValue("null")
    THEN GetFiles(tree) = [files |-> NoFiles, err |-> NoError]
  ELSE IF tree.m[filesKey].kind = "files"
    THEN GetFiles(tree) = [files |-> tree.m[filesKey].files, err |-> NoError]
  ELSE GetFiles(tree).err = errFilesType

\* C15: GetFiles returns no files and no error when the Files key is absent or
\* holds nil, and FieldTypeMismatch when it holds anything but a file map; on
\* the tree of every handler invocation it returns, without error, exactly the
\* files the request carried besides the primary payload.
C15_GetFilesOnProcessTrees ==
  /\ \A tree \in GetFilesTrees : GetFilesByShape(tree)
  /\ \A c \in ProcessCalls :
       calls[c].invoked > 0 =>
         /\ GetFilesByShape(calls[c].handed)
         /\ GetFiles(calls[c].handed) = [files |-> SentOthers(calls[c]), err |-> NoError]


\* ------------------------------------------------------------- C16
\* a step of a Describe or Process call leaves the registry as it was
RegistryUntouched ==
  calls' # calls =>
    /\ widgets' = widgets
    /\ heap' = heap
    /\ Registry' = Registry

\* a call that ended in WidgetNotFound or ActionNotFound has logged nothing
NotFoundLogsNothing ==
  \A c \in Callers :
    calls[c].err \in {errWidgetNotFound, errActionNotFound} => calls[c].log = <<>>

\* C16: whatever the outcome of a Describe or Process call, the widgets of the
\* registry, their action names and every action descriptor are the same after
\* each of its steps as before, and a call that ends in WidgetNotFound or
\* ActionNotFound writes nothing to the log.
C16_NoSideEffects == [][RegistryUntouched /\ NotFoundLogsNothing']_vars

\* a call has failed with Internal and logged once, and the registry still
\* holds two widgets, one of them with an action
C16_Witness ==
  /\ \E c \in ProcessCalls : calls[c].err = errInternal /\ Len(calls[c].log) = 1
  /\ Cardinality(DOMAIN Registry) = 2
  /\ \E w \in DOMAIN Registry : Registry[w] # EmptyWidget


\* ------------------------------------------------------------- C17
\* the call as it ends when it is the only one the process ever serves
ServedAlone(call) ==
  RunProcess(NewProcessCall(call.widgetName, call.actionName, call.sent),
             AdapterWidgets, heap)

\* every key and file of the tree handed to the handler came from the call's own request
OwnTree(call) ==
  /\ DOMAIN call.handed.m \subseteq DOMAIN SentDecode(call).data.m \cup {filesKey}
  /\ \A key \in DOMAIN call.handed.m :
       IF call.handed.m[key].kind = "files"
         THEN call.handed.m[key].files = SentOthers(call)
         ELSE call.handed.m[key] = SentDecode(call).data.m[key]

\* C17: a Process call ends as it would if it were served alone (same response
\* or error, same log entries, same tree handed to its handler), whatever other
\* calls were served before or during it, and the tree its handler receives
\* holds only keys and files of its own request.
C17_RequestsIndependent ==
  \A c \in FinishedProcessCalls :
    /\ calls[c] = ServedAlone(calls[c])
    /\ calls[c].invoked > 0 => OwnTree(calls[c])

\* two calls served together have ended, and their handlers received different
\* trees, one with files and one without
C17_Witness ==
  \E c1, c2 \in FinishedProcessCalls :
    /\ calls[c1].invoked > 0
    /\ calls[c2].invoked > 0
    /\ filesKey \in DOMAIN calls[c1].handed.m
    /\ filesKey \notin DOMAIN calls[c2].handed.m


\* ------------------------------------------------------------- C18
\* the request has no primary payload, or an empty one
NoPrimaryPayload(call) ==
  dataKey \notin DOMAIN call.sent \/ call.sent[dataKey] = ""

\* the payload bytes that decode
DecodablePayloads == { bytes \in PayloadBytes : Unmarshal(bytes).err = NoError }

\* C18: a Process call that resolves and whose files have no entry under
\* puzzledata.json, or an empty one, returns Internal, has logged the decode
\* error once and has invoked no handler, other files or not; a handler is
\* invoked only for a request whose primary payload decodes.
C18_MissingPayload ==
  \A c \in FinishedProcessCalls :
    LET call == calls[c] IN
    /\ (Resolves(call, Registry) /\ NoPrimaryPayload(call)) =>
         /\ call.pc = "Failed"
         /\ call.err = errInternal
         /\ call.resp = NoProcessResponse
         /\ Len(call.log) = 1
         /\ call.log[1].msg = "Failed to unmarshal data.json from call"
         /\ call.log[1].err # NoError
         /\ call.invoked = 0
    /\ call.invoked > 0 =>
         /\ dataKey \in DOMAIN call.sent
         /\ call.sent[dataKey] \in DecodablePayloads
         /\ call.sent[dataKey] # ""

\* a resolving call that carried a file but no primary payload has ended
C18_Witness ==
  \E c \in FinishedProcessCalls :
    /\ Resolves(calls[c], Registry)
    /\ dataKey \notin DOMAIN calls[c].sent
    /\ DOMAIN calls[c].sent # {}
    /\ calls[c].err = errInternal
    /\ calls[c].invoked = 0


\* ------------------------------------------------------------- C19
\* every Widget CreateWidget has returned for a name is the one the registry
\* holds under that name, and no two names share a Widget
HandlesAreRegistryWidgets ==
  /\ DOMAIN handles = DOMAIN widgets
  /\ \A name \in DOMAIN handles :
       \A i \in 1..Len(handles[name]) : handles[name][i] = widgets[name]
  /\ \A name, other \in DOMAIN widgets : name # other => widgets[name] # widgets[other]

\* Describe and Process see the actions as every handle of the name holds them
ResolvedThroughHandles ==
  \A c \in Callers :
    LET call == calls[c] IN
    (Finished(call) /\ call.widgetName \in DOMAIN handles) =>
      \A i \in 1..Len(handles[call.widgetName]) :
        LET widget == heap[handles[call.widgetName][i]] IN
        IF call.op = "GetWidget"
          THEN /\ call.widgetResp.present
               /\ { call.widgetResp.actions[k].Name : k \in 1..Len(call.widgetResp.actions) }
                    = DOMAIN widget
          ELSE IF call.actionName \in DOMAIN widget
                 THEN call.action = widget[call.actionName]
                 ELSE call.err = errActionNotFound

\* a registration through a handle shows in the registry under the handle's
\* name and changes the widget of no other name
AddedThroughHandle ==
  AddActionStep =>
    \A name \in DOMAIN widgets :
      IF \E i \in 1..Len(handles[name]) : handles[name][i] = lastReg'.w
        THEN /\ lastReg'.actionName \in DOMAIN Registry'[name]
             /\ Registry'[name][lastReg'.actionName] = lastReg'.act
        ELSE Registry'[name] = Registry[name]

\* C19: every Widget returned by CreateWidget(name) is the registry's own
\* Widget of that name, so an action added through any of them, before or after
\* later CreateWidget(name) calls, is held by all of them and is what Describe
\* and Process resolve; a registration changes the widget of no other name.
C19_HandlesAlias ==
  [][AddedThroughHandle /\ HandlesAreRegistryWidgets' /\ ResolvedThroughHandles']_vars

\* CreateWidget was called twice for a widget, and a Process call has resolved
\* an action added to it and invoked its handler
C19_Witness ==
  \E c \in FinishedProcessCalls :
    /\ calls[c].widgetName \in DOMAIN handles
    /\ Len(handles[calls[c].widgetName]) = 2
    /\ calls[c].action # NoAction
    /\ calls[c].invoked > 0

====
